---- MODULE Spec2Model ----
(***************************************************************************)
(* The workflow controller of ScenarioLab: the Dashboard component in its  *)
(* two variants.                                                           *)
(*   "LAB"    : src/frontend/src/pages/Dashboard.tsx                       *)
(*              steps CONFIGURE, GENERATE, LAB, RESULTS; self-test stores  *)
(*              the sandbox directly as the primary handle.                *)
(*   "REVIEW" : src/unnamed/part_000                                       *)
(*              steps CONFIGURE, GENERATING, SELF_TESTING, REVIEW,         *)
(*              LAUNCHING, RUNNING, VALIDATING, RESULTS; self-test stores  *)
(*              the sandbox as a provisional handle that Launch adopts.    *)
(* The component's React state is the record ui.  Every async handler is   *)
(* split at its awaits: the handler action runs the code up to the first   *)
(* await and leaves a task in flight; a Resolved / Rejected action runs    *)
(* the code after the await when the gateway answers.  Between two awaits  *)
(* the code runs to completion, so each piece is one atomic action.  A     *)
(* handler can be started only through a control the rendered view offers  *)
(* and enables.                                                            *)
(***************************************************************************)
EXTENDS Integers, Sequences, FiniteSets, Bags, TLC

VARIABLES variant, ui, tasks, nextLab, last, prev, resetStopped, passedSince,
          elapsedSeconds, timerRef, stopIssued

vars == <<variant, ui, tasks, nextLab, last, prev, resetStopped, passedSince,
          elapsedSeconds, timerRef, stopIssued>>

---------------------------------------------------------------------------
(* Bounds *)

\* sandbox ids the gateway can hand out in one run: 1..MaxLabs
MaxLabs == 2
\* handler invocations awaiting a gateway answer at the same time
MaxTasks == 2
\* longest result list handed to the merge
MaxResults == 2
\* longest feedback list handed to the merge
MaxFeedback == 2
\* timer ticks followed past the advisory ceiling
MaxOvertime == 1

\* const MAX_LOADING_SECONDS = 600; // 10 minutes
MAX_LOADING_SECONDS == 600

---------------------------------------------------------------------------
(* Values *)

Null == "null"
NullLab == 0
Labs == 1..MaxLabs
None == {}
Some(x) == {x}

Variants == {"LAB", "REVIEW"}
Blueprints == {"bpA", "bpB"}
Urls == {"http://x"}
ErrorTexts == {"syntax error in seed SQL"}
ThrownMessages == {"HTTP 500"}
LaunchStatuses == {"starting", "running"}

SelfTestGeneric == "Self-test failed - scenario may have bugs"
TestingMessage == "Testing scenario..."
GeneratingMessage == "Generating your scenario (this may take a few minutes)..."
CheckingMessage == "Checking your work..."
AnalyzingMessage == "Analyzing your work..."

\* ValidationResult; the nullable fields are None or Some(value)
rPass ==
  [query_name |-> "q1", passed |-> TRUE,
   expected_row_count |-> 3, actual_row_count |-> Some(3),
   expected_columns |-> <<"id", "total">>,
   actual_columns |-> Some(<<"id", "total">>),
   error |-> Null, feedback |-> None]
rFail ==
  [query_name |-> "row_count_check", passed |-> FALSE,
   expected_row_count |-> 3, actual_row_count |-> Some(2),
   expected_columns |-> <<"id", "total">>,
   actual_columns |-> Some(<<"id", "total">>),
   error |-> Null, feedback |-> None]
ResultLists == {<< >>, <<rPass>>, <<rPass, rFail>>}
fbItem == [query_name |-> "row_count_check", diagnosis |-> "d", suggestion |-> "s"]
FeedbackLists == {<< >>, <<fbItem>>}

\* further values for the merge: a second item for row_count_check, an item
\* for q1, an item for a check that is not among the results
fbLater == [query_name |-> "row_count_check", diagnosis |-> "d2", suggestion |-> "s2"]
fbQ1 == [query_name |-> "q1", diagnosis |-> "d1", suggestion |-> "s1"]
fbOther == [query_name |-> "q3", diagnosis |-> "d3", suggestion |-> "s3"]
FeedbackItems == {fbItem, fbLater, fbQ1, fbOther}
\* a failed check that already carries feedback from the validator
rFailOld == [rFail EXCEPT !.feedback = Some(fbItem)]
\* a check, named as rPass, whose query did not run
rErr ==
  [query_name |-> "q1", passed |-> FALSE,
   expected_row_count |-> 3, actual_row_count |-> None,
   expected_columns |-> <<"id", "total">>, actual_columns |-> None,
   error |-> "no such table", feedback |-> None]
ValidationResultValues == {rPass, rFail, rFailOld, rErr}

\* the sequences over S of length at most n
RECURSIVE SeqUpTo(_, _)
SeqUpTo(S, n) ==
  IF n = 0 THEN {<< >>}
  ELSE LET shorter == SeqUpTo(S, n - 1)
       IN shorter \cup {Append(q, x) : q \in shorter, x \in S}
MergeResultLists == SeqUpTo(ValidationResultValues, MaxResults)
MergeFeedbackLists == SeqUpTo(FeedbackItems, MaxFeedback)

---------------------------------------------------------------------------
(* The component state after construction (the useState initial values) *)

InitialState ==
  [step |-> "CONFIGURE", loading |-> FALSE, loadingMessage |-> Null,
   error |-> Null, blueprint |-> Null, labId |-> NullLab,
   labStatus |-> "pending", jupyterUrl |-> Null,
   validationResults |-> None, allPassed |-> FALSE, launching |-> FALSE,
   prelaunchedLabId |-> NullLab, prelaunchedJupyterUrl |-> Null]

\* a handler invocation suspended at an await, with the values its closure
\* holds; abandoned records that a Reset completed while it was suspended
Task(kind, pc, lab, bp, base) ==
  [kind |-> kind, pc |-> pc, lab |-> lab, bp |-> bp, base |-> base,
   abandoned |-> FALSE, fetch |-> "fetch"]

\* a request sent to the gateway
Call(op, lab, bp) == [op |-> op, lab |-> lab, bp |-> bp]

NoTask == Task("none", "none", NullLab, Null, << >>)

Did(act, issued, task, resp) ==
  [act |-> act, issued |-> issued, task |-> task, resp |-> resp]

Init ==
  /\ variant \in Variants
  /\ ui = InitialState
  /\ tasks = EmptyBag
  /\ nextLab = 1
  /\ last = Did("init", << >>, NoTask, Null)
  /\ prev = InitialState
  /\ resetStopped = {}
  /\ passedSince = NullLab
  /\ elapsedSeconds = 0
  /\ timerRef = 0
  /\ stopIssued = {}

---------------------------------------------------------------------------
(* Helpers shared by the handlers *)

\* JavaScript truthiness of a nullable string: null and "" are falsy
Truthy(str) == str # Null /\ str # ""

\* a || b on nullable strings
OrElse(a, b) == IF Truthy(a) THEN a ELSE b

\* e instanceof Error ? e.message : fallback
ErrorMessage(e, fallback) == IF e.isError THEN e.message ELSE fallback

\* what fetchJson can throw: always an Error instance with a message
Thrown == {[isError |-> TRUE, message |-> m] : m \in ThrownMessages}

Add(t) == tasks (+) SetToBag({t})
Remove(t) == tasks (-) SetToBag({t})
InFlight == BagToSet(tasks)
CanSuspend == BagCardinality(tasks) < MaxTasks

\* a Reset completed: every invocation still suspended is now abandoned
Abandon(B) == BagOfAll(LAMBDA t : [t EXCEPT !.abandoned = TRUE], B)

\* the finally blocks leaving the busy flag set
Finally_staysBusy(v, s) ==
  IF v = "LAB" THEN [s EXCEPT !.loadingMessage = Null] ELSE s

\* the finally block of handleGenerate / handleDemo / handleValidate
Finally(v, s) ==
  IF v = "LAB"
    THEN [s EXCEPT !.loading = FALSE, !.loadingMessage = Null]
    ELSE [s EXCEPT !.loading = FALSE]

\* loading && loadingMessage: the overlay with the elapsed time is rendered
Watched(s) == s.loading /\ Truthy(s.loadingMessage)

\* the effect running with a live interval whatever the flags are
\* if (timerRef.current) clearInterval(timerRef.current): one interval fewer
clearInterval(live) == IF live > 0 THEN live - 1 ELSE 0

\* if (loading && loadingMessage) timerRef.current = setInterval(...)
setInterval(s2) == IF Watched(s2) THEN 1 ELSE 0

useEffect_alwaysOn(s, s2) ==
  IF <<s2.loading, s2.loadingMessage>> = <<s.loading, s.loadingMessage>>
    THEN UNCHANGED <<elapsedSeconds, timerRef>>
    ELSE elapsedSeconds' = 0 /\ timerRef' = 1

\* the effect without setElapsedSeconds(0)
useEffect_keepsCount(s, s2) ==
  IF <<s2.loading, s2.loadingMessage>> = <<s.loading, s.loadingMessage>>
    THEN UNCHANGED <<elapsedSeconds, timerRef>>
    ELSE /\ UNCHANGED elapsedSeconds
         /\ timerRef' = clearInterval(timerRef) + setInterval(s2)

\* the effect without its cleanup function: a label change starts a second
\* interval beside the first
useEffect_noCleanup(s, s2) ==
  IF <<s2.loading, s2.loadingMessage>> = <<s.loading, s.loadingMessage>>
    THEN UNCHANGED <<elapsedSeconds, timerRef>>
    ELSE /\ elapsedSeconds' = 0
         /\ timerRef' = IF Watched(s2) THEN timerRef + 1
                                       ELSE clearInterval(timerRef)

\* useEffect(..., [loading, loadingMessage]) of the LAB variant, run after a
\* render in which one of the two changed: the cleanup of the previous run
\* clears the interval timerRef.current holds, the counter is set to 0 and a
\* new interval is started iff both are truthy (the else branch clears
\* timerRef.current again, which the cleanup has cleared already).
\* timerRef is the number of live intervals; timerRef.current holds the one
\* started last.  The REVIEW variant has neither the effect nor
\* loadingMessage.
useEffect(s, s2) ==
  IF <<s2.loading, s2.loadingMessage>> = <<s.loading, s.loadingMessage>>
    THEN UNCHANGED <<elapsedSeconds, timerRef>>
    ELSE /\ elapsedSeconds' = 0
         /\ timerRef' = clearInterval(timerRef) + setInterval(s2)

\* the sandbox ids the calls of one step ask the gateway to stop
StopTargets(issued) ==
  {issued[i].lab : i \in {j \in 1..Len(issued) : issued[j].op = "stopLab"}}

\* one step of the component: new state, new tasks, and the record of it
\* (before: the invocations that were suspended when the step began)
Do(act, s2, tasks2, issued, task, resp) ==
  /\ ui' = s2
  /\ useEffect(ui, s2)
  /\ stopIssued' = stopIssued \cup StopTargets(issued)
  /\ tasks' = tasks2
  /\ last' = [act |-> act, issued |-> issued, task |-> task, resp |-> resp,
              before |-> tasks]
  /\ prev' = ui
  /\ variant' = variant

---------------------------------------------------------------------------
(* What the rendered view offers (the JSX of Dashboard and its children) *)

\* Start Over withheld while the busy flag is set
ShowsStartOver_notWhileLoading(s) == s.step # "CONFIGURE" /\ ~s.loading

\* {step !== 'CONFIGURE' && <button onClick={handleReset}>}: never disabled
ShowsStartOver(s) == s.step # "CONFIGURE"

ShowsForm(s) == s.step = "CONFIGURE"

ShowsBlueprintViewer(v, s) ==
  v = "REVIEW" /\ s.step = "REVIEW" /\ s.blueprint # Null

ShowsLabWorkspace(v, s) ==
  IF v = "LAB"
    THEN s.step = "LAB" /\ s.blueprint # Null
    ELSE s.step = "RUNNING" /\ s.labId # NullLab /\ s.blueprint # Null

\* the lab controls enabled whatever the busy flag is
LabControlsEnabled_ignoresLoading(v, s) ==
  /\ ShowsLabWorkspace(v, s)
  /\ s.labId # NullLab
  /\ s.labStatus = "running"

\* "Check My Work" and "Stop Lab": shown for a running lab, disabled while loading
LabControlsEnabled(v, s) ==
  /\ ShowsLabWorkspace(v, s)
  /\ s.labId # NullLab
  /\ s.labStatus = "running"
  /\ ~s.loading

\* the LAB variant's "Launch Lab" button: no lab and not launching
ShowsAutoLaunch(v, s) ==
  /\ v = "LAB"
  /\ ShowsLabWorkspace(v, s)
  /\ s.labId = NullLab
  /\ ~s.launching

ShowsResults(v, s) ==
  /\ s.step = "RESULTS"
  /\ s.validationResults # None
  /\ (v = "LAB" => ~s.loading)

---------------------------------------------------------------------------
(* handleGenerate / handleDemo and runSelfTest *)

GenerateBegin(v, s) ==
  IF v = "LAB"
    THEN [s EXCEPT !.loading = TRUE, !.error = Null, !.step = "GENERATE",
                   !.loadingMessage = GeneratingMessage]
    ELSE [s EXCEPT !.loading = TRUE, !.error = Null, !.step = "GENERATING"]

\* runSelfTest up to its await
runSelfTestBegin(v, s) ==
  IF v = "LAB"
    THEN [s EXCEPT !.loadingMessage = TestingMessage]
    ELSE [s EXCEPT !.step = "SELF_TESTING"]

\* the try block after api.generateScenario / api.getDemoBlueprint resolved
GenerateSucceeded(v, s, bp) == runSelfTestBegin(v, [s EXCEPT !.blueprint = bp])

\* GenerateFailed with the finally block lost
GenerateFailed_noFinally(v, s, e, fallback) ==
  [s EXCEPT !.error = ErrorMessage(e, fallback), !.step = "CONFIGURE"]

\* the catch block of handleGenerate / handleDemo, then finally
GenerateFailed(v, s, e, fallback) ==
  Finally(v, [s EXCEPT !.error = ErrorMessage(e, fallback), !.step = "CONFIGURE"])

\* runSelfTestResult with result.error ?? generic in place of ||
runSelfTestResult_nullish(v, s, result) ==
  IF result.passed /\ result.lab_id # NullLab
    THEN IF v = "LAB"
           THEN [s EXCEPT !.labId = result.lab_id, !.labStatus = "running",
                          !.jupyterUrl = result.jupyter_url, !.step = "LAB"]
           ELSE [s EXCEPT !.prelaunchedLabId = result.lab_id,
                          !.prelaunchedJupyterUrl = result.jupyter_url,
                          !.step = "REVIEW"]
    ELSE [s EXCEPT !.error = IF result.error # Null THEN result.error
                                                    ELSE SelfTestGeneric,
                   !.step = "CONFIGURE"]

\* runSelfTestResult testing result.passed alone
runSelfTestResult_passedOnly(v, s, result) ==
  IF result.passed
    THEN IF v = "LAB"
           THEN [s EXCEPT !.labId = result.lab_id, !.labStatus = "running",
                          !.jupyterUrl = result.jupyter_url, !.step = "LAB"]
           ELSE [s EXCEPT !.prelaunchedLabId = result.lab_id,
                          !.prelaunchedJupyterUrl = result.jupyter_url,
                          !.step = "REVIEW"]
    ELSE [s EXCEPT !.error = OrElse(result.error, SelfTestGeneric),
                   !.step = "CONFIGURE"]

\* runSelfTest after api.selfTest resolved
runSelfTestResult(v, s, result) ==
  IF result.passed /\ result.lab_id # NullLab
    THEN IF v = "LAB"
           THEN [s EXCEPT !.labId = result.lab_id, !.labStatus = "running",
                          !.jupyterUrl = result.jupyter_url, !.step = "LAB"]
           ELSE [s EXCEPT !.prelaunchedLabId = result.lab_id,
                          !.prelaunchedJupyterUrl = result.jupyter_url,
                          !.step = "REVIEW"]
    ELSE [s EXCEPT !.error = OrElse(result.error, SelfTestGeneric),
                   !.step = "CONFIGURE"]

\* the catch block of runSelfTest
runSelfTestThrew(s, e) ==
  [s EXCEPT !.error = ErrorMessage(e, "Self-test failed"), !.step = "CONFIGURE"]

\* the responses api.selfTest can resolve with
SelfTestResponses ==
  [passed : BOOLEAN,
   lab_id : {NullLab} \cup (IF nextLab <= MaxLabs THEN {nextLab} ELSE {}),
   jupyter_url : {Null} \cup Urls,
   error : {Null, ""} \cup ErrorTexts]

handleGenerate ==
  /\ ShowsForm(ui) /\ ~ui.loading
  /\ CanSuspend
  /\ LET t == Task("generate", "generate", NullLab, Null, << >>)
     IN Do("handleGenerate", GenerateBegin(variant, ui), Add(t),
           <<Call("generateScenario", NullLab, Null)>>, t, Null)
  /\ UNCHANGED <<nextLab, resetStopped, passedSince>>

handleDemo ==
  /\ ShowsForm(ui) /\ ~ui.loading
  /\ CanSuspend
  /\ LET t == Task("demo", "generate", NullLab, Null, << >>)
     IN Do("handleDemo", GenerateBegin(variant, ui), Add(t),
           <<Call("getDemoBlueprint", NullLab, Null)>>, t, Null)
  /\ UNCHANGED <<nextLab, resetStopped, passedSince>>

\* generateResolved testing the blueprint the component held before the call
generateResolved_heldBlueprint ==
  \E t \in InFlight, bp \in Blueprints :
    /\ t.kind \in {"generate", "demo"} /\ t.pc = "generate"
    /\ LET t2 == [t EXCEPT !.pc = "selfTest", !.bp = bp, !.fetch = "fetch"]
       IN Do("generateResolved", GenerateSucceeded(variant, ui, bp),
             Remove(t) (+) SetToBag({t2}),
             <<Call("selfTest", NullLab, ui.blueprint)>>, t, bp)
    /\ UNCHANGED <<nextLab, resetStopped, passedSince>>

generateResolved ==
  \E t \in InFlight, bp \in Blueprints :
    /\ t.kind \in {"generate", "demo"} /\ t.pc = "generate"
    /\ LET t2 == [t EXCEPT !.pc = "selfTest", !.bp = bp, !.fetch = "fetch"]
       IN Do("generateResolved", GenerateSucceeded(variant, ui, bp),
             Remove(t) (+) SetToBag({t2}),
             <<Call("selfTest", NullLab, bp)>>, t, bp)
    /\ UNCHANGED <<nextLab, resetStopped, passedSince>>

\* generateRejected calling the gateway again instead of giving up
generateRejected_retries ==
  \E t \in InFlight, e \in Thrown :
    /\ t.kind \in {"generate", "demo"} /\ t.pc = "generate"
    /\ Do("generateRejected", ui, tasks,
          <<Call("generateScenario", NullLab, Null)>>, t, e)
    /\ UNCHANGED <<nextLab, resetStopped, passedSince>>

generateRejected ==
  \E t \in InFlight, e \in Thrown :
    /\ t.kind \in {"generate", "demo"} /\ t.pc = "generate"
    /\ Do("generateRejected",
          GenerateFailed(variant, ui, e,
                         IF t.kind = "demo" THEN "Failed to load demo"
                                            ELSE "Generation failed"),
          Remove(t), << >>, t, e)
    /\ UNCHANGED <<nextLab, resetStopped, passedSince>>

selfTestResolved ==
  \E t \in InFlight, result \in SelfTestResponses :
    /\ t.kind \in {"generate", "demo"} /\ t.pc = "selfTest"
    /\ Do("selfTestResolved",
          Finally(variant, runSelfTestResult(variant, ui, result)),
          Remove(t), << >>, t, result)
    /\ nextLab' = IF result.lab_id # NullLab THEN nextLab + 1 ELSE nextLab
    /\ passedSince' = IF result.passed /\ result.lab_id # NullLab
                        THEN result.lab_id ELSE passedSince
    /\ UNCHANGED resetStopped

selfTestRejected ==
  \E t \in InFlight, e \in Thrown :
    /\ t.kind \in {"generate", "demo"} /\ t.pc = "selfTest"
    /\ Do("selfTestRejected", Finally(variant, runSelfTestThrew(ui, e)),
          Remove(t), << >>, t, e)
    /\ UNCHANGED <<nextLab, resetStopped, passedSince>>

---------------------------------------------------------------------------
(* handleLaunch (REVIEW variant) and handleAutoLaunch (LAB variant) *)

\* Adopt leaving the provisional slot filled
Adopt_keepsProvisional(s) ==
  [s EXCEPT !.labId = s.prelaunchedLabId, !.labStatus = "running",
            !.jupyterUrl = s.prelaunchedJupyterUrl, !.step = "RUNNING"]

\* the reuse branch of handleLaunch: the provisional handle becomes primary
Adopt(s) ==
  [s EXCEPT !.labId = s.prelaunchedLabId, !.labStatus = "running",
            !.jupyterUrl = s.prelaunchedJupyterUrl,
            !.prelaunchedLabId = NullLab, !.prelaunchedJupyterUrl = Null,
            !.step = "RUNNING"]

\* handleLaunch always provisioning afresh
Reuses_never(s) == FALSE

\* handleLaunch chooses the reuse branch when a provisional handle is held
Reuses(s) == s.prelaunchedLabId # NullLab

\* the fallback branch of handleLaunch up to its await
LaunchBegin(s) ==
  [s EXCEPT !.loading = TRUE, !.error = Null, !.step = "LAUNCHING"]

LaunchSucceeded(s, response) ==
  [s EXCEPT !.labId = response.lab_id, !.labStatus = response.status,
            !.jupyterUrl = response.jupyter_url, !.step = "RUNNING",
            !.loading = FALSE]

\* LaunchFailed leaving the busy flag set
LaunchFailed_staysBusy(s, e) ==
  [s EXCEPT !.error = ErrorMessage(e, "Launch failed"), !.step = "REVIEW"]

LaunchFailed(s, e) ==
  [s EXCEPT !.error = ErrorMessage(e, "Launch failed"), !.step = "REVIEW",
            !.loading = FALSE]

AutoLaunchBegin(s) == [s EXCEPT !.launching = TRUE, !.error = Null]

AutoLaunchSucceeded(s, response) ==
  [s EXCEPT !.labId = response.lab_id, !.labStatus = response.status,
            !.jupyterUrl = response.jupyter_url, !.launching = FALSE]

AutoLaunchFailed(s, e) ==
  [s EXCEPT !.error = ErrorMessage(e, "Launch failed"), !.launching = FALSE]

\* the responses api.launchLab can resolve with: lab_id is never null
LaunchResponses ==
  [lab_id : IF nextLab <= MaxLabs THEN {nextLab} ELSE {},
   status : LaunchStatuses,
   jupyter_url : {Null} \cup Urls]

\* "Launch Lab" of BlueprintViewer, disabled while loading
handleLaunch ==
  /\ ShowsBlueprintViewer(variant, ui) /\ ~ui.loading
  /\ ui.blueprint # Null
  /\ IF Reuses(ui)
       THEN Do("handleLaunch", Adopt(ui), tasks, << >>, NoTask, Null)
       ELSE /\ CanSuspend
            /\ LET t == Task("launch", "launch", NullLab, ui.blueprint, << >>)
               IN Do("handleLaunch", LaunchBegin(ui), Add(t),
                     <<Call("launchLab", NullLab, ui.blueprint)>>, t, Null)
  /\ UNCHANGED <<nextLab, resetStopped, passedSince>>

handleAutoLaunch ==
  /\ ShowsAutoLaunch(variant, ui)
  /\ ui.blueprint # Null
  /\ CanSuspend
  /\ LET t == Task("autoLaunch", "launch", NullLab, ui.blueprint, << >>)
     IN Do("handleAutoLaunch", AutoLaunchBegin(ui), Add(t),
           <<Call("launchLab", NullLab, ui.blueprint)>>, t, Null)
  /\ UNCHANGED <<nextLab, resetStopped, passedSince>>

launchLabResolved ==
  \E t \in InFlight, response \in LaunchResponses :
    /\ t.pc = "launch"
    /\ Do("launchLabResolved",
          IF t.kind = "launch" THEN LaunchSucceeded(ui, response)
                               ELSE AutoLaunchSucceeded(ui, response),
          Remove(t), << >>, t, response)
    /\ nextLab' = nextLab + 1
    /\ UNCHANGED <<resetStopped, passedSince>>

launchLabRejected ==
  \E t \in InFlight, e \in Thrown :
    /\ t.pc = "launch"
    /\ Do("launchLabRejected",
          IF t.kind = "launch" THEN LaunchFailed(ui, e)
                               ELSE AutoLaunchFailed(ui, e),
          Remove(t), << >>, t, e)
    /\ UNCHANGED <<nextLab, resetStopped, passedSince>>

---------------------------------------------------------------------------
(* handleValidate and the feedback merge *)

ValidateBegin(v, s) ==
  IF v = "LAB"
    THEN [s EXCEPT !.loading = TRUE, !.error = Null, !.step = "RESULTS",
                   !.loadingMessage = CheckingMessage]
    ELSE [s EXCEPT !.loading = TRUE, !.error = Null, !.step = "VALIDATING"]

\* hasFailures asking only whether any result came back
hasFailures_any(results) == Len(results) > 0

\* response.results.some(r => !r.passed)
hasFailures(results) == \E i \in 1..Len(results) : ~results[i].passed

\* new Map(feedback.map(f => [f.query_name, f])).get(name):
\* the last item of that name, if any
feedbackByName(feedback, name) ==
  LET idx == {i \in 1..Len(feedback) : feedback[i].query_name = name}
  IN IF idx = {} THEN None
     ELSE Some(feedback[CHOOSE i \in idx : \A j \in idx : j <= i])

\* merge with "?? null": a result without an item loses its feedback
merge_overwrites(results, feedback) ==
  [i \in 1..Len(results) |->
     [results[i] EXCEPT !.feedback =
        feedbackByName(feedback, results[i].query_name)]]

\* merge pairing results and items by position
merge_byPosition(results, feedback) ==
  [i \in 1..Len(results) |->
     [results[i] EXCEPT !.feedback =
        IF i <= Len(feedback) THEN Some(feedback[i]) ELSE @]]

\* results.map(r => ({...r, feedback: feedbackByName.get(r.query_name) ?? r.feedback}))
merge(results, feedback) ==
  [i \in 1..Len(results) |->
     LET found == feedbackByName(feedback, results[i].query_name)
     IN [results[i] EXCEPT !.feedback = IF found # None THEN found ELSE @]]

\* after api.validateLab resolved, up to the feedback await or the end
ValidateSucceeded(v, s, response) ==
  LET stored == [s EXCEPT !.validationResults = Some(response.results),
                          !.allPassed = response.all_passed]
  IN IF v = "LAB"
       THEN IF hasFailures(response.results)
              THEN [stored EXCEPT !.loadingMessage = AnalyzingMessage]
              ELSE Finally(v, stored)
       ELSE Finally(v, [stored EXCEPT !.step = "RESULTS"])

\* ValidateFailed without the setStep back to the lab
ValidateFailed_staysResults(v, s, e) ==
  Finally(v, [s EXCEPT !.error = ErrorMessage(e, "Validation failed")])

\* ValidateFailed also dropping the results of the earlier validation
ValidateFailed_clearsResults(v, s, e) ==
  Finally(v, [s EXCEPT !.error = ErrorMessage(e, "Validation failed"),
                       !.validationResults = None,
                       !.step = IF v = "LAB" THEN "LAB" ELSE "RUNNING"])

ValidateFailed(v, s, e) ==
  Finally(v, [s EXCEPT !.error = ErrorMessage(e, "Validation failed"),
                       !.step = IF v = "LAB" THEN "LAB" ELSE "RUNNING"])

FeedbackSucceeded(v, s, base, feedback) ==
  Finally(v, [s EXCEPT !.validationResults = Some(merge(base, feedback))])

\* FeedbackFailed surfacing the failure in the error slot
FeedbackFailed_surfaces(v, s) ==
  Finally(v, [s EXCEPT !.error = "Feedback failed"])

FeedbackFailed(v, s) == Finally(v, s)

ValidateResponses == [all_passed : BOOLEAN, results : ResultLists]

handleValidate ==
  /\ LabControlsEnabled(variant, ui)
  /\ ui.labId # NullLab
  /\ CanSuspend
  /\ LET t == Task("validate", "validate", ui.labId, Null, << >>)
     IN Do("handleValidate", ValidateBegin(variant, ui), Add(t),
           <<Call("validateLab", ui.labId, Null)>>, t, Null)
  /\ UNCHANGED <<nextLab, resetStopped, passedSince>>

validateLabResolved ==
  \E t \in InFlight, response \in ValidateResponses :
    /\ t.kind = "validate" /\ t.pc = "validate"
    /\ LET more == variant = "LAB" /\ hasFailures(response.results)
           t2 == [t EXCEPT !.pc = "feedback", !.base = response.results,
                          !.fetch = "fetch"]
       IN Do("validateLabResolved", ValidateSucceeded(variant, ui, response),
             IF more THEN Remove(t) (+) SetToBag({t2}) ELSE Remove(t),
             IF more THEN <<Call("getFeedback", t.lab, Null)>> ELSE << >>,
             t, response)
    /\ UNCHANGED <<nextLab, resetStopped, passedSince>>

validateLabRejected ==
  \E t \in InFlight, e \in Thrown :
    /\ t.kind = "validate" /\ t.pc = "validate"
    /\ Do("validateLabRejected", ValidateFailed(variant, ui, e),
          Remove(t), << >>, t, e)
    /\ UNCHANGED <<nextLab, resetStopped, passedSince>>

getFeedbackResolved ==
  \E t \in InFlight, feedback \in FeedbackLists :
    /\ t.kind = "validate" /\ t.pc = "feedback"
    /\ Do("getFeedbackResolved",
          FeedbackSucceeded(variant, ui, t.base, feedback),
          Remove(t), << >>, t, feedback)
    /\ UNCHANGED <<nextLab, resetStopped, passedSince>>

getFeedbackRejected ==
  \E t \in InFlight, e \in Thrown :
    /\ t.kind = "validate" /\ t.pc = "feedback"
    /\ Do("getFeedbackRejected", FeedbackFailed(variant, ui),
          Remove(t), << >>, t, e)
    /\ UNCHANGED <<nextLab, resetStopped, passedSince>>

---------------------------------------------------------------------------
(* handleStop *)

StopStatuses == {"stopping", "stopped"}

\* the responses api.stopLab can resolve with; the handlers ignore them
StopResponses == [status : StopStatuses]

StopBegin(s) == [s EXCEPT !.loading = TRUE]

\* StopSucceeded clearing the handle only for a lab reported stopped
StopSucceeded_onlyWhenStopped(s, response) ==
  IF response.status = "stopped"
    THEN [s EXCEPT !.labStatus = "stopped", !.labId = NullLab,
                   !.jupyterUrl = Null, !.step = "CONFIGURE",
                   !.loading = FALSE]
    ELSE [s EXCEPT !.labStatus = response.status, !.loading = FALSE]

StopSucceeded(s, response) ==
  [s EXCEPT !.labStatus = "stopped", !.labId = NullLab, !.jupyterUrl = Null,
            !.step = "CONFIGURE", !.loading = FALSE]

\* StopFailed clearing the handle as on success
StopFailed_clears(s, e) ==
  [s EXCEPT !.error = ErrorMessage(e, "Stop failed"), !.labId = NullLab,
            !.jupyterUrl = Null, !.step = "CONFIGURE", !.loading = FALSE]

StopFailed(s, e) ==
  [s EXCEPT !.error = ErrorMessage(e, "Stop failed"), !.loading = FALSE]

handleStop ==
  /\ LabControlsEnabled(variant, ui)
  /\ ui.labId # NullLab
  /\ CanSuspend
  /\ LET t == Task("stop", "stop", ui.labId, Null, << >>)
     IN Do("handleStop", StopBegin(ui), Add(t),
           <<Call("stopLab", ui.labId, Null)>>, t, Null)
  /\ UNCHANGED <<nextLab, resetStopped, passedSince>>

stopLabResolved ==
  \E t \in InFlight, response \in StopResponses :
    /\ t.kind = "stop"
    /\ Do("stopLabResolved", StopSucceeded(ui, response), Remove(t), << >>, t, response)
    /\ passedSince' = NullLab
    /\ UNCHANGED <<nextLab, resetStopped>>

stopLabRejected ==
  \E t \in InFlight, e \in Thrown :
    /\ t.kind = "stop"
    /\ Do("stopLabRejected", StopFailed(ui, e), Remove(t), << >>, t, e)
    /\ passedSince' = NullLab
    /\ UNCHANGED <<nextLab, resetStopped>>

---------------------------------------------------------------------------
(* handleReset *)

\* ResetHandle cleaning up the primary handle in both variants
ResetHandle_primary(v, s) == s.labId

\* the handle handleReset cleans up: the running lab (LAB variant) or the
\* pre-launched lab (REVIEW variant)
ResetHandle(v, s) == IF v = "LAB" THEN s.labId ELSE s.prelaunchedLabId

\* ResetCleared without setLabId(null)
ResetCleared_keepsHandle(v, s) ==
  LET common == [s EXCEPT !.step = "CONFIGURE", !.blueprint = Null,
                          !.labStatus = "pending",
                          !.jupyterUrl = Null, !.validationResults = None,
                          !.allPassed = FALSE, !.error = Null]
  IN IF v = "LAB"
       THEN [common EXCEPT !.launching = FALSE, !.loadingMessage = Null]
       ELSE [common EXCEPT !.prelaunchedLabId = NullLab,
                           !.prelaunchedJupyterUrl = Null]

\* ResetCleared without setValidationResults(null) and setError(null)
ResetCleared_keepsResults(v, s) ==
  LET common == [s EXCEPT !.step = "CONFIGURE", !.blueprint = Null,
                          !.labId = NullLab, !.labStatus = "pending",
                          !.jupyterUrl = Null, !.allPassed = FALSE]
  IN IF v = "LAB"
       THEN [common EXCEPT !.launching = FALSE, !.loadingMessage = Null]
       ELSE [common EXCEPT !.prelaunchedLabId = NullLab,
                           !.prelaunchedJupyterUrl = Null]

\* the setters at the end of handleReset
ResetCleared(v, s) ==
  LET common == [s EXCEPT !.step = "CONFIGURE", !.blueprint = Null,
                          !.labId = NullLab, !.labStatus = "pending",
                          !.jupyterUrl = Null, !.validationResults = None,
                          !.allPassed = FALSE, !.error = Null]
  IN IF v = "LAB"
       THEN [common EXCEPT !.launching = FALSE, !.loadingMessage = Null]
       ELSE [common EXCEPT !.prelaunchedLabId = NullLab,
                           !.prelaunchedJupyterUrl = Null]

\* ResetSettled surfacing a failed cleanup like handleStop does
ResetSettled_surfaces(v, s, outcome) ==
  IF outcome \in Thrown
    THEN [ResetCleared(v, s) EXCEPT !.error = ErrorMessage(outcome, "Stop failed")]
    ELSE ResetCleared(v, s)

\* handleReset after its try / catch around api.stopLab: the catch is empty,
\* so the outcome of the call plays no part
ResetSettled(v, s, outcome) == ResetCleared(v, s)

\* handleReset running its setters before the stop call has settled
handleReset_clearsFirst ==
  /\ ShowsStartOver(ui)
  /\ LET h == ResetHandle(variant, ui)
     IN IF h # NullLab
          THEN /\ CanSuspend
               /\ LET t == Task("reset", "stop", h, Null, << >>)
                  IN Do("handleReset", ResetCleared(variant, ui), Add(t),
                        <<Call("stopLab", h, Null)>>, t, Null)
               /\ resetStopped' = resetStopped \cup {h}
               /\ UNCHANGED <<nextLab, passedSince>>
          ELSE /\ Do("handleResetDone", ResetCleared(variant, ui),
                     Abandon(tasks), << >>, NoTask, Null)
               /\ passedSince' = NullLab
               /\ UNCHANGED <<nextLab, resetStopped>>

\* "Start Over" (and, in the REVIEW variant, "Back" of BlueprintViewer,
\* shown only in step REVIEW): with no handle the handler has no await
handleReset ==
  /\ ShowsStartOver(ui)
  /\ LET h == ResetHandle(variant, ui)
     IN IF h # NullLab
          THEN /\ CanSuspend
               /\ LET t == Task("reset", "stop", h, Null, << >>)
                  IN Do("handleReset", ui, Add(t),
                        <<Call("stopLab", h, Null)>>, t, Null)
               /\ resetStopped' = resetStopped \cup {h}
               /\ UNCHANGED <<nextLab, passedSince>>
          ELSE /\ Do("handleResetDone", ResetCleared(variant, ui),
                     Abandon(tasks), << >>, NoTask, Null)
               /\ passedSince' = NullLab
               /\ UNCHANGED <<nextLab, resetStopped>>

\* the best-effort stop of handleReset settled, either way
resetStopSettled ==
  \E t \in InFlight, outcome \in StopResponses \cup Thrown :
    /\ t.kind = "reset"
    /\ Do("handleResetDone", ResetSettled(variant, ui, outcome),
          Abandon(Remove(t)), << >>, t, outcome)
    /\ passedSince' = NullLab
    /\ UNCHANGED <<nextLab, resetStopped>>

---------------------------------------------------------------------------
(* Back / Try Again of ValidationResults, and the error banner's dismiss *)

\* Back / Try Again discarding the results on the way
BackToLab_dropsResults(v, s) ==
  [s EXCEPT !.step = IF v = "LAB" THEN "LAB" ELSE "RUNNING",
            !.validationResults = None, !.allPassed = FALSE]

\* onBack={() => setStep('LAB')} / onRetry={() => setStep('LAB')}
\* (REVIEW variant: setStep('RUNNING'))
BackToLab(v, s) == [s EXCEPT !.step = IF v = "LAB" THEN "LAB" ELSE "RUNNING"]

onBack ==
  /\ ShowsResults(variant, ui)
  /\ Do("onBack", BackToLab(variant, ui), tasks, << >>, NoTask, Null)
  /\ UNCHANGED <<nextLab, resetStopped, passedSince>>

\* "Try Again" is rendered only when allPassed is false
onRetry ==
  /\ ShowsResults(variant, ui)
  /\ ~ui.allPassed
  /\ Do("onRetry", BackToLab(variant, ui), tasks, << >>, NoTask, Null)
  /\ UNCHANGED <<nextLab, resetStopped, passedSince>>

\* the dismiss button offered only while nothing is loading
dismissError_whenIdle ==
  /\ ui.error # Null /\ ~ui.loading
  /\ Do("dismissError", [ui EXCEPT !.error = Null], tasks, << >>, NoTask, Null)
  /\ UNCHANGED <<nextLab, resetStopped, passedSince>>

\* {error && ... <button onClick={() => setError(null)}>}
dismissError ==
  /\ ui.error # Null
  /\ Do("dismissError", [ui EXCEPT !.error = Null], tasks, << >>, NoTask, Null)
  /\ UNCHANGED <<nextLab, resetStopped, passedSince>>

---------------------------------------------------------------------------
(* The next-state relation.  handleAutoLaunch and the two answers to        *)
(* api.launchLab are left out of it: no view the component can render       *)
(* offers a Launch control while no handle is held (LaunchNeverOffered), so *)
(* no launchLab call is ever in flight.                                     *)

Next ==
  \/ handleGenerate \/ handleDemo
  \/ generateResolved \/ generateRejected
  \/ selfTestResolved \/ selfTestRejected
  \/ handleLaunch
  \/ handleValidate
  \/ validateLabResolved \/ validateLabRejected
  \/ getFeedbackResolved \/ getFeedbackRejected
  \/ handleStop \/ stopLabResolved \/ stopLabRejected
  \/ handleReset \/ resetStopSettled
  \/ onBack \/ onRetry \/ dismissError

Spec == Init /\ [][Next]_vars

---------------------------------------------------------------------------
(* Supporting facts *)

\* the fields of the component state a settled call writes results into
Workflow(s) ==
  [step |-> s.step, blueprint |-> s.blueprint, labId |-> s.labId,
   labStatus |-> s.labStatus, jupyterUrl |-> s.jupyterUrl,
   prelaunchedLabId |-> s.prelaunchedLabId,
   prelaunchedJupyterUrl |-> s.prelaunchedJupyterUrl,
   validationResults |-> s.validationResults, allPassed |-> s.allPassed,
   error |-> s.error]

\* whenever a Launch control is offered, a provisional handle is held
LaunchNeverOffered ==
  /\ ~ShowsAutoLaunch(variant, ui)
  /\ (ShowsBlueprintViewer(variant, ui) /\ ~ui.loading => Reuses(ui))

Settles ==
  {"generateResolved", "generateRejected", "selfTestResolved",
   "selfTestRejected", "launchLabResolved", "launchLabRejected",
   "validateLabResolved", "validateLabRejected"}

---------------------------------------------------------------------------
(* Claims *)

\* C1: REVIEW variant: when a self-test has passed with a lab id and no Reset
\* or Stop has completed since, the Launch action issues no launchLab call
\* (it issues no remote call at all).
C1_LaunchIssuesNoCall ==
  (variant = "REVIEW" /\ last.act = "handleLaunch" /\ passedSince # NullLab)
    => last.issued = << >>

C1_Witness ==
  /\ variant = "REVIEW" /\ last.act = "handleLaunch"
  /\ passedSince # NullLab /\ prev.prelaunchedLabId = passedSince

\* C2: REVIEW variant: right after Launch adopts a provisional handle, labId
\* is the id the self-test returned, labStatus is running, the primary URL is
\* the provisional URL, the provisional slot is empty and step is RUNNING.
C2_AdoptionPostcondition ==
  (variant = "REVIEW" /\ last.act = "handleLaunch"
     /\ prev.prelaunchedLabId # NullLab)
    => /\ ui.labId = prev.prelaunchedLabId
       /\ ui.labId = passedSince
       /\ ui.labStatus = "running"
       /\ ui.jupyterUrl = prev.prelaunchedJupyterUrl
       /\ ui.prelaunchedLabId = NullLab
       /\ ui.prelaunchedJupyterUrl = Null
       /\ ui.step = "RUNNING"

C2_Witness ==
  /\ variant = "REVIEW" /\ last.act = "handleLaunch"
  /\ prev.prelaunchedLabId # NullLab
  /\ prev.prelaunchedJupyterUrl # Null
  /\ ui.labId = prev.prelaunchedLabId

\* C3: both variants: when Reset completes, step is CONFIGURE and blueprint,
\* primary handle and URL, provisional handle, validation results and error
\* are cleared; running handleReset again in that state issues no remote call
\* (no handle is held to stop) and leaves the state as it is.
C3_ResetClearsAndIsIdempotent ==
  last.act = "handleResetDone"
    => /\ ui.step = "CONFIGURE"
       /\ ui.blueprint = Null
       /\ ui.labId = NullLab /\ ui.jupyterUrl = Null
       /\ ui.prelaunchedLabId = NullLab /\ ui.prelaunchedJupyterUrl = Null
       /\ ui.validationResults = None
       /\ ui.error = Null
       /\ ResetHandle(variant, ui) = NullLab
       /\ ResetCleared(variant, ui) = ui

C3_Witness ==
  /\ last.act = "handleResetDone"
  /\ prev.step \in {"LAB", "RUNNING"} /\ prev.blueprint # Null
  /\ prev.labId # NullLab /\ prev.jupyterUrl # Null
  /\ prev.validationResults # None /\ prev.error # Null
  /\ ui.step = "CONFIGURE"

\* C4: both variants: a call that was in flight when a Reset completed has
\* its answer ignored when it settles: step, blueprint, handles, validation
\* results and error stay as they were.
C4_StaleAnswerIgnored ==
  (last.act \in Settles /\ last.task.abandoned)
    => Workflow(ui) = Workflow(prev)

\* C5: REVIEW variant: no state has a primary handle for whose id Reset has
\* already issued a stop call (adoption never races with Reset).
C5_NoAdoptionOfStoppedHandle ==
  variant = "REVIEW" => ui.labId \notin resetStopped

\* C6: both variants: when the self-test answers passed=false, step becomes
\* CONFIGURE, no handle is stored (the handle slots are untouched and empty)
\* and error is the returned text when that is non-empty, else the generic
\* self-test message; in both cases it is non-empty.
C6_SelfTestFailed ==
  (last.act = "selfTestResolved" /\ ~last.resp.passed)
    => /\ ui.step = "CONFIGURE"
       /\ ui.labId = prev.labId /\ ui.labId = NullLab
       /\ ui.prelaunchedLabId = prev.prelaunchedLabId
       /\ ui.prelaunchedLabId = NullLab
       /\ ui.jupyterUrl = prev.jupyterUrl
       /\ ui.prelaunchedJupyterUrl = prev.prelaunchedJupyterUrl
       /\ ui.error = (IF last.resp.error \notin {Null, ""}
                        THEN last.resp.error ELSE SelfTestGeneric)
       /\ ui.error \notin {Null, ""}

C6_Witness ==
  /\ last.act = "selfTestResolved" /\ ~last.resp.passed
  /\ last.resp.error = "" /\ last.resp.lab_id # NullLab
  /\ ui.error = SelfTestGeneric

\* C7: both variants: a self-test answer with passed=true and no lab id is a
\* failure: step becomes CONFIGURE, error is set, and neither a primary nor a
\* provisional handle is stored.
C7_PassWithoutHandleFails ==
  (last.act = "selfTestResolved" /\ last.resp.passed
     /\ last.resp.lab_id = NullLab)
    => /\ ui.step = "CONFIGURE"
       /\ ui.error \notin {Null, ""}
       /\ ui.error = OrElse(last.resp.error, SelfTestGeneric)
       /\ ui.labId = prev.labId /\ ui.labId = NullLab
       /\ ui.prelaunchedLabId = prev.prelaunchedLabId
       /\ ui.prelaunchedLabId = NullLab

C7_Witness ==
  /\ last.act = "selfTestResolved" /\ last.resp.passed
  /\ last.resp.lab_id = NullLab /\ last.resp.jupyter_url # Null
  /\ ui.step = "CONFIGURE"

\* C8: both variants: when the generate or demo call fails, step is CONFIGURE,
\* error is set, no self-test call is issued for that action, no blueprint is
\* stored by it, and the busy flag is cleared.
C8_GenerateFailed ==
  last.act = "generateRejected"
    => /\ ui.step = "CONFIGURE"
       /\ ui.error = last.resp.message /\ ui.error \notin {Null, ""}
       /\ last.issued = << >>
       /\ ~BagIn([last.task EXCEPT !.pc = "selfTest"], tasks)
       /\ \A t \in InFlight : t.pc # "selfTest"
       /\ ui.blueprint = prev.blueprint
       /\ ~ui.loading

C8_Witness ==
  /\ last.act = "generateRejected" /\ last.task.kind = "demo"
  /\ prev.loading /\ prev.error = Null /\ ~ui.loading

\* C9: both variants: when a user Stop call answers without error, whatever
\* status it reports, the primary handle and URL are cleared and step is
\* CONFIGURE.
C9_StopSucceeded ==
  last.act = "stopLabResolved"
    => /\ ui.labId = NullLab
       /\ ui.jupyterUrl = Null
       /\ ui.step = "CONFIGURE"

C9_Witness ==
  /\ last.act = "stopLabResolved" /\ last.resp.status = "stopping"
  /\ prev.labId # NullLab /\ prev.jupyterUrl # Null
  /\ prev.step # "CONFIGURE"

\* C10: both variants: when a user Stop call fails, error is set and the
\* primary handle id, status and URL and the step are left as they were.
C10_StopFailed ==
  last.act = "stopLabRejected"
    => /\ ui.error = last.resp.message /\ ui.error # Null
       /\ ui.labId = prev.labId
       /\ ui.labStatus = prev.labStatus
       /\ ui.jupyterUrl = prev.jupyterUrl
       /\ ui.step = prev.step

C10_Witness ==
  /\ last.act = "stopLabRejected"
  /\ prev.labId # NullLab /\ prev.error = Null
  /\ ui.labId = prev.labId /\ ui.error # Null

\* C11: REVIEW variant: Reset issues exactly one stop call, for the
\* provisional handle, when one is held and none otherwise; whatever the
\* outcome of that call, failure included, Reset completes with step
\* CONFIGURE and error null and issues no further call.
C11_ResetBestEffortStop ==
  variant = "REVIEW"
    => /\ last.act = "handleReset"
            => /\ prev.prelaunchedLabId # NullLab
               /\ last.issued = <<Call("stopLab", prev.prelaunchedLabId, Null)>>
       /\ (last.act = "handleResetDone" /\ last.task = NoTask)
            => /\ prev.prelaunchedLabId = NullLab
               /\ last.issued = << >>
       /\ last.act = "handleResetDone"
            => /\ last.issued = << >>
               /\ ui.step = "CONFIGURE"
               /\ ui.error = Null

C11_Witness ==
  /\ variant = "REVIEW" /\ last.act = "handleResetDone"
  /\ last.task.kind = "reset" /\ last.resp \in Thrown
  /\ prev.prelaunchedLabId = last.task.lab
  /\ ui.step = "CONFIGURE" /\ ui.error = Null

\* C12: both variants: after Reset completes, loading is false (and in the LAB
\* variant launching is false and loadingMessage is null), also when Reset was
\* triggered while a driving operation was in flight.
C12_ResetClearsLoading ==
  last.act = "handleResetDone"
    => /\ ~ui.loading
       /\ (variant = "LAB" => ~ui.launching /\ ui.loadingMessage = Null)

\* C13: REVIEW variant: in a state with a primary handle (labId non-null), a
\* stop call issued by Reset targets the provisional handle and never labId.
C13_ResetNeverStopsPrimary ==
  (variant = "REVIEW" /\ last.act \in {"handleReset", "handleResetDone"}
     /\ prev.labId # NullLab)
    => \A i \in 1..Len(last.issued) :
         /\ last.issued[i].lab # prev.labId
         /\ last.issued[i].lab = prev.prelaunchedLabId

C13_Witness ==
  /\ variant = "REVIEW" /\ last.act = "handleResetDone"
  /\ last.task = NoTask
  /\ prev.step = "RUNNING" /\ prev.labId # NullLab
  /\ prev.labStatus = "running"
  /\ last.issued = << >>

\* a validate call is awaiting its answer
ValidateInFlight == \E t \in InFlight : t.kind = "validate" /\ t.pc = "validate"

\* C14 as claimed: in both variants step becomes RESULTS only when a validate
\* call has succeeded; on success results and allPassed are the response's and
\* step is RESULTS; step is never RESULTS while the validate call is in flight
\* or right after it failed.
C14_ResultsOnlyOnSuccess ==
  /\ (ui.step = "RESULTS" /\ prev.step # "RESULTS")
       => last.act = "validateLabResolved"
  /\ last.act = "validateLabResolved"
       => /\ ui.validationResults = Some(last.resp.results)
          /\ ui.allPassed = last.resp.all_passed
          /\ ui.step = "RESULTS"
  /\ ui.step = "RESULTS" => ~ValidateInFlight
  /\ last.act = "validateLabRejected" => ui.step # "RESULTS"

\* C14 amended: on success results and allPassed are the response's, and
\* right after a failure step is not RESULTS, in both variants.  REVIEW
\* variant: step becomes RESULTS only by a validate success, is RESULTS after
\* it, and is never RESULTS while the call is in flight.  LAB variant: step
\* becomes RESULTS only when handleValidate issues the call, a success leaves
\* step as it is, and the results view is never shown while the call is in
\* flight.
C14_ResultsShownOnlyOnSuccess ==
  /\ last.act = "validateLabResolved"
       => /\ ui.validationResults = Some(last.resp.results)
          /\ ui.allPassed = last.resp.all_passed
          /\ ui.step = IF variant = "LAB" THEN prev.step ELSE "RESULTS"
  /\ last.act = "validateLabRejected" => ui.step # "RESULTS"
  /\ (ui.step = "RESULTS" /\ prev.step # "RESULTS")
       => last.act = IF variant = "LAB" THEN "handleValidate"
                                        ELSE "validateLabResolved"
  /\ variant = "REVIEW" => (ui.step = "RESULTS" => ~ValidateInFlight)
  /\ ShowsResults(variant, ui) => ~ValidateInFlight

C14_Witness ==
  /\ variant = "LAB" /\ last.act = "validateLabResolved"
  /\ prev.step = "RESULTS" /\ prev.loading /\ prev.validationResults = None
  /\ ShowsResults(variant, ui)
  /\ ui.validationResults = Some(<<rPass>>) /\ ui.allPassed

\* C15: both variants: when the validate call fails, step is the running-lab
\* step (LAB / RUNNING), error is set, the primary handle and the results of
\* any earlier validation are unchanged and no feedback call is issued.
C15_ValidateCallFailed ==
  last.act = "validateLabRejected"
    => /\ ui.step = IF variant = "LAB" THEN "LAB" ELSE "RUNNING"
       /\ ui.error = last.resp.message /\ ui.error # Null
       /\ ui.labId = prev.labId
       /\ ui.labStatus = prev.labStatus /\ ui.jupyterUrl = prev.jupyterUrl
       /\ ui.validationResults = prev.validationResults
       /\ ui.allPassed = prev.allPassed
       /\ last.issued = << >>
       /\ \A t \in InFlight : t.pc # "feedback"

C15_Witness ==
  /\ last.act = "validateLabRejected"
  /\ prev.validationResults # None /\ prev.labId # NullLab
  /\ ui.validationResults = prev.validationResults
  /\ ui.error # Null

\* C16: LAB variant: once the validate call has succeeded the results view is
\* displayable (step RESULTS, results stored, loading false) without waiting
\* for getFeedback to settle.
C16_FeedbackNeverBlocksResults ==
  (variant = "LAB" /\ last.act = "validateLabResolved"
     /\ ~last.task.abandoned)
    => ShowsResults(variant, ui)

\* C17: LAB variant: a getFeedback call is issued only by the success of a
\* validate call, for the lab id that call was made with, and only if a
\* returned result has passed = false; a validate answer with every check
\* passed, and a failed validate call, issue no call.
C17_FeedbackOnlyAfterFailedChecks ==
  variant = "LAB"
    => /\ \A i \in 1..Len(last.issued) :
            last.issued[i].op = "getFeedback"
              => /\ last.act = "validateLabResolved"
                 /\ \E k \in 1..Len(last.resp.results) :
                      ~last.resp.results[k].passed
                 /\ last.issued[i].lab = last.task.lab
                 /\ last.task.lab # NullLab
       /\ (last.act = "validateLabResolved"
             /\ \A k \in 1..Len(last.resp.results) : last.resp.results[k].passed)
            => last.issued = << >>
       /\ last.act = "validateLabRejected" => last.issued = << >>
       /\ \A t \in InFlight :
            t.pc = "feedback" => \E k \in 1..Len(t.base) : ~t.base[k].passed

C17_Witness ==
  /\ variant = "LAB" /\ last.act = "validateLabResolved"
  /\ last.issued = <<Call("getFeedback", last.task.lab, Null)>>
  /\ last.resp.results = <<rPass, rFail>>

C17_WitnessAllPassed ==
  /\ variant = "LAB" /\ last.act = "validateLabResolved"
  /\ last.resp.results = <<rPass>> /\ last.issued = << >>

\* C18: LAB variant: when the feedback call fails, the stored results and
\* allPassed stay as they are, which is the base values validate returned
\* unless a Reset completed meanwhile, error stays as it is (null), and step
\* stays as it is (RESULTS unless a Reset completed meanwhile).
C18_FeedbackFailureSwallowed ==
  (variant = "LAB" /\ last.act = "getFeedbackRejected")
    => /\ ui.validationResults = prev.validationResults
       /\ ui.allPassed = prev.allPassed
       /\ ui.error = prev.error
       /\ ui.step = prev.step
       /\ ~last.task.abandoned
            => /\ ui.validationResults = Some(last.task.base)
               /\ ui.step = "RESULTS"
               /\ ui.error = Null

C18_Witness ==
  /\ variant = "LAB" /\ last.act = "getFeedbackRejected"
  /\ ~last.task.abandoned
  /\ ui.validationResults = Some(<<rPass, rFail>>)
  /\ ui.step = "RESULTS" /\ ui.error = Null /\ ~ui.loading

---------------------------------------------------------------------------
(* The enrichment merge on its own: every result list and feedback list *)

\* the stored result list
Stored(s) == CHOOSE r \in s.validationResults : TRUE

\* LAB variant, validate has resolved with results r and getFeedback is awaited
MergeInit ==
  /\ variant = "LAB"
  /\ \E r \in MergeResultLists :
       /\ ui = [InitialState EXCEPT !.step = "RESULTS", !.loading = TRUE,
                                    !.loadingMessage = AnalyzingMessage,
                                    !.blueprint = "bpA", !.labId = 1,
                                    !.labStatus = "running",
                                    !.jupyterUrl = "http://x",
                                    !.validationResults = Some(r)]
       /\ last = Did("validated", << >>,
                     Task("validate", "feedback", 1, Null, r), Null)
  /\ tasks = EmptyBag
  /\ nextLab = 2
  /\ prev = InitialState
  /\ resetStopped = {}
  /\ passedSince = NullLab
  /\ elapsedSeconds = 0
  /\ timerRef = 1
  /\ stopIssued = {}

\* the feedback answer arrives: merged = merge(results, feedback) is stored
mergeOnce ==
  \E feedback \in MergeFeedbackLists :
    /\ last.act = "validated"
    /\ Do("merge", FeedbackSucceeded(variant, ui, last.task.base, feedback),
          tasks, << >>, last.task, feedback)
    /\ UNCHANGED <<nextLab, resetStopped, passedSince>>

\* the same feedback list merged into the merged list
mergeAgain ==
  /\ last.act = "merge"
  /\ Do("mergeAgain", FeedbackSucceeded(variant, ui, Stored(ui), last.resp),
        tasks, << >>, last.task, last.resp)
  /\ UNCHANGED <<nextLab, resetStopped, passedSince>>

MergeNext == mergeOnce \/ mergeAgain

MergeSpec == MergeInit /\ [][MergeNext]_vars

\* C19: for every result list and feedback list, the merged list has the
\* length and the query_name order of the input, a result whose query_name no
\* feedback item carries keeps its feedback field, and merging the same
\* feedback into the merged list yields the merged list again.
C19_MergeIdempotentOrderPreserving ==
  last.act \in {"merge", "mergeAgain"}
    => LET input == Stored(prev)
           output == Stored(ui)
           feedback == last.resp
       IN /\ Len(output) = Len(input)
          /\ \A i \in 1..Len(input) :
               /\ output[i].query_name = input[i].query_name
               /\ (\A k \in 1..Len(feedback) :
                     feedback[k].query_name # input[i].query_name)
                    => output[i].feedback = input[i].feedback
          /\ last.act = "mergeAgain" => output = input

C19_Witness ==
  /\ last.act = "mergeAgain"
  /\ last.task.base = <<rFailOld, rPass>>
  /\ last.resp = <<fbQ1, fbOther>>
  /\ Stored(prev) = <<rFailOld, [rPass EXCEPT !.feedback = Some(fbQ1)]>>
  /\ Stored(ui) = Stored(prev)

\* C20: the merge gives each result the feedback item of the list that has
\* the result's query_name (the last one when several have it) and leaves
\* passed, the row counts, the columns and error as they were; a result with
\* no item of its name, a passing one in particular, is returned untouched.
C20_MergeAttachesByName ==
  last.act = "merge"
    => LET input == last.task.base
           output == Stored(ui)
           feedback == last.resp
       IN /\ DOMAIN output = DOMAIN input
          /\ \A i \in 1..Len(input) :
               LET named == {k \in 1..Len(feedback) :
                               feedback[k].query_name = input[i].query_name}
               IN /\ output[i].query_name = input[i].query_name
                  /\ output[i].passed = input[i].passed
                  /\ output[i].expected_row_count = input[i].expected_row_count
                  /\ output[i].actual_row_count = input[i].actual_row_count
                  /\ output[i].expected_columns = input[i].expected_columns
                  /\ output[i].actual_columns = input[i].actual_columns
                  /\ output[i].error = input[i].error
                  /\ named = {} => output[i] = input[i]
                  /\ named # {}
                       => \E k \in named :
                            /\ \A j \in named : j <= k
                            /\ output[i].feedback = Some(feedback[k])

C20_Witness ==
  /\ last.act = "merge"
  /\ last.task.base = <<rPass, rFail>>
  /\ last.resp = <<fbItem>>
  /\ Stored(ui) = <<rPass, [rFail EXCEPT !.feedback = Some(fbItem)]>>

---------------------------------------------------------------------------
(* The elapsed watchdog of the LAB variant, with the passage of time *)

\* what a tick found: the counter and the suspended invocations before it
Ticked == [elapsed |-> elapsedSeconds, tasks |-> tasks]

\* a tick that gives up at the ceiling: the overlay is taken down
tick_givesUp ==
  /\ timerRef > 0
  /\ elapsedSeconds < MAX_LOADING_SECONDS + MaxOvertime
  /\ elapsedSeconds' = elapsedSeconds + 1
  /\ ui' = IF elapsedSeconds' >= MAX_LOADING_SECONDS
             THEN [ui EXCEPT !.error = "Timed out"]
             ELSE ui
  /\ last' = Did("tick", << >>, NoTask, Ticked)
  /\ prev' = ui
  /\ UNCHANGED <<variant, tasks, nextLab, resetStopped, passedSince,
                 timerRef, stopIssued>>

\* the setInterval callback: setElapsedSeconds(prev => prev + 1)
tick ==
  /\ timerRef > 0
  /\ elapsedSeconds < MAX_LOADING_SECONDS + MaxOvertime
  /\ elapsedSeconds' = elapsedSeconds + 1
  /\ last' = Did("tick", << >>, NoTask, Ticked)
  /\ prev' = ui
  /\ UNCHANGED <<variant, ui, tasks, nextLab, resetStopped, passedSince,
                 timerRef, stopIssued>>

\* elapsedSeconds >= MAX_LOADING_SECONDS inside the loading overlay
ShowsAdvisory(s, elapsed) == Watched(s) /\ elapsed >= MAX_LOADING_SECONDS

WatchdogInit == Init /\ variant = "LAB"

\* the timer, the labeled operations (the handlers that set loadingMessage)
\* with their answers, and Reset, which clears loadingMessage
WatchdogNext ==
  \/ tick
  \/ handleGenerate \/ handleDemo
  \/ generateResolved \/ generateRejected
  \/ selfTestResolved \/ selfTestRejected
  \/ handleValidate
  \/ validateLabResolved \/ validateLabRejected
  \/ getFeedbackResolved \/ getFeedbackRejected
  \/ handleReset \/ resetStopSettled

WatchdogSpec == WatchdogInit /\ [][WatchdogNext]_vars

\* a call of a labeled operation is awaiting its answer
Labeled == {t \in InFlight : t.kind \in {"generate", "demo", "validate"}}

\* C21: LAB variant: the counter is 0 and the timer runs when a labeled
\* operation (generate / demo, its self-test, validate, its feedback call)
\* starts; a tick adds exactly 1 and happens only while the timer runs with a
\* labeled call in flight; once the operation has settled, either way, the
\* timer is cancelled and the counter is 0, and with the timer cancelled the
\* counter stays 0.
C21_WatchdogCountsWhileInFlight ==
  /\ variant = "LAB"
  /\ last.act \in {"handleGenerate", "handleDemo", "handleValidate",
                   "generateResolved"}
       => elapsedSeconds = 0 /\ timerRef > 0
  /\ (last.act = "validateLabResolved" /\ last.issued # << >>)
       => elapsedSeconds = 0 /\ timerRef > 0
  /\ last.act = "tick"
       => /\ elapsedSeconds = last.resp.elapsed + 1
          /\ timerRef > 0 /\ Watched(ui)
          /\ Labeled # {}
  /\ (\/ last.act \in {"generateRejected", "selfTestResolved",
                       "selfTestRejected", "validateLabRejected",
                       "getFeedbackResolved", "getFeedbackRejected"}
      \/ (last.act = "validateLabResolved" /\ last.issued = << >>))
       => timerRef = 0 /\ elapsedSeconds = 0
  /\ timerRef = 0 => elapsedSeconds = 0
  /\ (timerRef > 0) <=> Watched(ui)

C21_Witness ==
  /\ last.act = "selfTestRejected"
  /\ prev.loading /\ prev.loadingMessage = TestingMessage
  /\ timerRef = 0 /\ elapsedSeconds = 0
  /\ ~ui.loading

\* a tick has moved the counter off 0 during a self-test
C21_WitnessTick ==
  /\ last.act = "tick" /\ elapsedSeconds = 2
  /\ ui.loadingMessage = TestingMessage

\* C22: LAB variant: whenever a generate, self-test, launch or validate call
\* is in flight, the elapsed timer is active (loading is true and
\* loadingMessage is non-null).
C22_WatchdogAlwaysAttached ==
  (variant = "LAB"
     /\ \E t \in InFlight : t.pc \in {"generate", "selfTest", "launch", "validate"})
    => timerRef > 0 /\ ui.loading /\ ui.loadingMessage # Null

\* C23: LAB variant: a tick, the one to or past the ceiling included, changes
\* elapsedSeconds only: the component state and the suspended invocations are
\* as before it; the advisory is shown exactly when elapsedSeconds >= 600,
\* and then a labeled call is in flight.
C23_WatchdogAdvisoryOnly ==
  /\ variant = "LAB"
  /\ last.act = "tick"
       => /\ ui = prev
          /\ tasks = last.resp.tasks
          /\ elapsedSeconds = last.resp.elapsed + 1
  /\ ShowsAdvisory(ui, elapsedSeconds)
       <=> elapsedSeconds >= MAX_LOADING_SECONDS
  /\ elapsedSeconds >= MAX_LOADING_SECONDS => Labeled # {}

C23_Witness ==
  /\ last.act = "tick"
  /\ elapsedSeconds = MAX_LOADING_SECONDS + 1
  /\ ShowsAdvisory(ui, elapsedSeconds)
  /\ ui = prev /\ ui.step = "GENERATE" /\ ui.loading
  /\ tasks = last.resp.tasks /\ Labeled # {}

\* the driving operations in flight: every suspended handler invocation
\* other than Reset's best-effort stop
Driving == {t \in InFlight : t.kind # "reset"}

\* C24: both variants: at most one driving operation is in flight at any
\* time; while one is in flight the busy flag is set, and a control that
\* starts a driving operation acts only while the busy flag is clear.
C24_OneDrivingOperation ==
  /\ \A t \in Driving : CopiesIn(t, tasks) = 1 /\ Driving = {t}
  /\ Driving # {} => ui.loading
  /\ last.act \in {"handleGenerate", "handleDemo", "handleValidate", "handleStop"}
       => ~prev.loading /\ Driving = {last.task}
  /\ (last.act = "handleLaunch" /\ last.task # NoTask)
       => ~prev.loading /\ Driving = {last.task}

\* a second click is refused: a Stop is in flight, a Reset has issued its
\* own stop beside it, and the lab controls are rendered but disabled
C24_Witness ==
  /\ \E t \in Driving : t.kind = "stop"
  /\ \E t \in InFlight : t.kind = "reset"
  /\ ui.loading /\ ui.labId # NullLab
  /\ ShowsLabWorkspace(variant, ui) /\ ~LabControlsEnabled(variant, ui)

\* the actions a click starts (handleResetDone with no task is a Reset that
\* had no handle to stop)
UserActions ==
  {"handleGenerate", "handleDemo", "handleLaunch", "handleValidate",
   "handleStop", "handleReset", "onBack", "onRetry"}

\* C25: both variants: Generate, Demo, Launch, Validate, Stop, Reset and
\* Back / Retry each leave error null at the moment the action begins.
C25_ErrorClearedByEveryAction ==
  (\/ last.act \in UserActions
   \/ (last.act = "handleResetDone" /\ last.task = NoTask))
    => ui.error = Null

---------------------------------------------------------------------------
(* StepIndicator *)

\* const STEPS of the StepIndicator each Dashboard is paired with (the keys)
STEPS(v) ==
  IF v = "LAB"
    THEN <<"CONFIGURE", "GENERATE", "LAB", "RESULTS">>
    ELSE <<"CONFIGURE", "GENERATING", "REVIEW", "LAUNCHING", "RUNNING",
           "VALIDATING", "RESULTS">>

\* the values of the WorkflowStep type
WorkflowStep(v) == {STEPS(v)[i] : i \in 1..Len(STEPS(v))}

\* STEPS.findIndex(s => s.key === currentStep): 0-based, -1 when none
currentIndex(v, currentStep) ==
  LET hits == {i \in 1..Len(STEPS(v)) : STEPS(v)[i] = currentStep}
  IN IF hits = {} THEN -1
     ELSE (CHOOSE i \in hits : \A j \in hits : i <= j) - 1

\* the steps rendered with isActive (i === currentIndex)
Active(v, currentStep) ==
  {i \in 0..(Len(STEPS(v)) - 1) : i = currentIndex(v, currentStep)}

\* C26: the current step is always a value of the WorkflowStep enum of the
\* paired StepIndicator, and the indicator marks exactly one step active.
C26_StepAlwaysInEnum ==
  /\ ui.step \in WorkflowStep(variant)
  /\ Cardinality(Active(variant, ui.step)) = 1

\* C27: both variants: in every state with step other than CONFIGURE the
\* Reset action is enabled (as far as the bound on suspended invocations lets
\* the model follow it); a Reset whose stop call is in flight can always have
\* it settle; and when Reset completes, at once or after its stop call
\* settled either way, step is CONFIGURE.
C27_ResetAlwaysRecovers ==
  /\ (ui.step # "CONFIGURE" /\ CanSuspend) => ENABLED handleReset
  /\ (\E t \in InFlight : t.kind = "reset") => ENABLED resetStopSettled
  /\ last.act = "handleResetDone" => ui.step = "CONFIGURE"

C27_Witness ==
  /\ variant = "LAB"
  /\ last.act = "handleResetDone" /\ last.task.kind = "reset"
  /\ last.resp \in Thrown
  /\ prev.step = "RESULTS" /\ prev.loading
  /\ ui.step = "CONFIGURE"

\* the remote operation each handler calls first
FirstCall ==
  [handleGenerate |-> "generateScenario", handleDemo |-> "getDemoBlueprint",
   handleLaunch |-> "launchLab", handleValidate |-> "validateLab",
   handleStop |-> "stopLab", handleReset |-> "stopLab"]

\* the actions that run a catch block: a call has failed
Rejections ==
  {"generateRejected", "selfTestRejected", "launchLabRejected",
   "validateLabRejected", "getFeedbackRejected", "stopLabRejected"}

\* C28: both variants: no remote operation is retried automatically.  A step
\* issues at most one call; a call is issued either by the user action that
\* starts a handler (its first call) or by the success of the previous call
\* of the same handler, and then it is the next operation (self-test after
\* generate, feedback after validate), never the one just answered; after a
\* failed call the handler issues nothing more and is over, so a further
\* call of it needs a new user action.
C28_NoAutomaticRetry ==
  /\ Len(last.issued) <= 1
  /\ last.issued # << >>
       => \/ /\ last.act \in DOMAIN FirstCall
             /\ last.issued[1].op = FirstCall[last.act]
          \/ /\ last.act = "generateResolved"
             /\ last.issued[1].op = "selfTest"
             /\ last.task.pc = "generate"
          \/ /\ last.act = "validateLabResolved"
             /\ last.issued[1].op = "getFeedback"
             /\ last.task.pc = "validate"
  /\ last.act \in Rejections
       => /\ last.issued = << >>
          /\ \A t \in Driving : t.kind # last.task.kind
  /\ last.act \in {"selfTestResolved", "getFeedbackResolved",
                   "stopLabResolved", "launchLabResolved", "handleResetDone"}
       => last.issued = << >>

\* a failed self-test: the handler is over, the form is back with the error,
\* and nothing was called again
C28_Witness ==
  /\ last.act = "selfTestRejected"
  /\ last.issued = << >> /\ tasks = EmptyBag
  /\ ui.step = "CONFIGURE" /\ ui.error # Null /\ ~ui.loading

---------------------------------------------------------------------------
(* The fresh-launch path.  No state the component reaches from its first   *)
(* render offers a Launch control without a handle (LaunchNeverOffered),    *)
(* so the path is followed from the state its comment names: "no self-test *)
(* ran, or self-test lab was cleaned up", a blueprint being displayed.      *)

LaunchInit ==
  /\ variant \in Variants
  /\ \E bp \in Blueprints, e \in {Null} \cup ThrownMessages :
       ui = [InitialState EXCEPT
               !.step = IF variant = "LAB" THEN "LAB" ELSE "REVIEW",
               !.blueprint = bp, !.error = e]
  /\ tasks = EmptyBag
  /\ nextLab = 1
  /\ last = Did("init", << >>, NoTask, Null)
  /\ prev = InitialState
  /\ resetStopped = {}
  /\ passedSince = NullLab
  /\ elapsedSeconds = 0
  /\ timerRef = 0
  /\ stopIssued = {}

LaunchNext ==
  \/ Next
  \/ handleAutoLaunch
  \/ launchLabResolved \/ launchLabRejected

LaunchSpec == LaunchInit /\ [][LaunchNext]_vars

\* C29: REVIEW variant: Launch with a blueprint and no provisional handle
\* issues exactly one launchLab call for that blueprint; when it succeeds
\* labId, labStatus and the URL are the response's and step is RUNNING; when
\* it fails step is REVIEW, error is set and no primary handle is stored; the
\* busy flag is clear after either.
C29_FreshLaunch ==
  variant = "REVIEW"
    => /\ (last.act = "handleLaunch" /\ prev.prelaunchedLabId = NullLab)
            => /\ last.issued = <<Call("launchLab", NullLab, prev.blueprint)>>
               /\ prev.blueprint # Null
               /\ BagIn(last.task, tasks) /\ last.task.kind = "launch"
       /\ (last.act = "handleLaunch" /\ prev.prelaunchedLabId # NullLab)
            => last.issued = << >>
       /\ last.act = "launchLabResolved"
            => /\ ui.labId = last.resp.lab_id /\ ui.labId # NullLab
               /\ ui.labStatus = last.resp.status
               /\ ui.jupyterUrl = last.resp.jupyter_url
               /\ ui.step = "RUNNING"
               /\ ~ui.loading
               /\ last.issued = << >>
       /\ last.act = "launchLabRejected"
            => /\ ui.step = "REVIEW"
               /\ ui.error = last.resp.message /\ ui.error # Null
               /\ ui.labId = NullLab
               /\ ~ui.loading
               /\ last.issued = << >>

C29_Witness ==
  /\ variant = "REVIEW" /\ last.act = "launchLabRejected"
  /\ ~last.task.abandoned
  /\ ui.step = "REVIEW" /\ ui.error = "HTTP 500" /\ ui.labId = NullLab
  /\ ~ui.loading /\ ui.blueprint = last.task.bp

C29_WitnessSucceeded ==
  /\ variant = "REVIEW" /\ last.act = "launchLabResolved"
  /\ ui.step = "RUNNING" /\ ui.labId = 1 /\ ui.labStatus = "starting"
  /\ ~ui.loading

\* the sandbox ids the gateway has handed to the controller so far
Received == 1..(nextLab - 1)

\* the ids held locally, as primary or as provisional handle
Held(s) == {s.labId, s.prelaunchedLabId} \ {NullLab}

\* C30: both variants: whenever no operation is in flight, every sandbox id
\* the controller has received from self-test or launch is still held (as
\* primary or provisional handle) or a stop call has been issued for it.
C30_NoHandleDroppedUnstopped ==
  tasks = EmptyBag
    => \A id \in Received : id \in Held(ui) \/ id \in stopIssued

\* C31: both variants: Back and Retry from RESULTS change only the step (to
\* LAB / RUNNING): results, allPassed, blueprint, handles, error and every
\* other field are as before, no call is issued and the suspended
\* invocations are as before; the stored results change only by a validate
\* or feedback answer or by Reset.
C31_BackAndRetryOnlyChangeStep ==
  /\ last.act \in {"onBack", "onRetry"}
       => /\ prev.step = "RESULTS"
          /\ ui = [prev EXCEPT !.step = IF variant = "LAB" THEN "LAB"
                                                           ELSE "RUNNING"]
          /\ last.issued = << >>
          /\ tasks = last.before
  /\ ui.validationResults # prev.validationResults
       => last.act \in {"validateLabResolved", "getFeedbackResolved",
                        "handleResetDone"}

C31_Witness ==
  /\ last.act = "onRetry"
  /\ ui.validationResults = Some(<<rPass, rFail>>) /\ ~ui.allPassed
  /\ ui.step \in {"LAB", "RUNNING"} /\ ui.labId # NullLab
  /\ ui.blueprint # Null

\* C32: both variants: dismissing the error is enabled whenever error is
\* non-null, in every step and while a driving operation is in flight; it
\* sets error to null and leaves every other field of the state and the
\* suspended invocations as they were, and issues no call.
C32_DismissOnlyClearsError ==
  /\ ui.error # Null => ENABLED dismissError
  /\ last.act = "dismissError"
       => /\ prev.error # Null
          /\ ui = [prev EXCEPT !.error = Null]
          /\ last.issued = << >>
          /\ tasks = last.before

\* dismissed while a Stop is in flight
C32_Witness ==
  /\ last.act = "dismissError"
  /\ Driving # {} /\ ui.loading
  /\ prev.error # Null /\ ui.error = Null
  /\ ui.step # "CONFIGURE"

---------------------------------------------------------------------------
(* The two variants as foldings of one sequence *)

\* the map of the REVIEW variant's steps onto the LAB variant's
Fold(step) ==
  CASE step \in {"GENERATING", "SELF_TESTING"} -> "GENERATE"
    [] step \in {"REVIEW", "LAUNCHING", "RUNNING"} -> "LAB"
    [] step \in {"VALIDATING", "RESULTS"} -> "RESULTS"
    [] OTHER -> step

\* the step changes the LAB variant's code can make: GENERATE is set by
\* handleGenerate / handleDemo, offered in CONFIGURE; RESULTS by
\* handleValidate, offered in LAB; LAB (self-test passed, validate failed,
\* Back / Retry) and CONFIGURE (failures, Stop, Reset) by answers and
\* handlers that may run in any step; and a step may stay as it is
LabEdges ==
  {<<"CONFIGURE", "GENERATE">>, <<"LAB", "RESULTS">>}
    \cup {<<x, "LAB">> : x \in WorkflowStep("LAB")}
    \cup {<<x, "CONFIGURE">> : x \in WorkflowStep("LAB")}
    \cup {<<x, x>> : x \in WorkflowStep("LAB")}

\* the LAB variant makes no other step change
LabEdgesCoverLab ==
  variant = "LAB" => <<prev.step, ui.step>> \in LabEdges

\* C33: every step trace of the REVIEW variant, folded, is up to stuttering
\* a step trace of the LAB variant; in particular every step change of the
\* REVIEW variant, folded, is a step change the LAB variant can make.
C33_ReviewFoldsIntoLab ==
  variant = "REVIEW" => <<Fold(prev.step), Fold(ui.step)>> \in LabEdges

---------------------------------------------------------------------------
(* fetchJson: the request beneath every call of the gateway *)

\* Where a call's fetchJson stands (the fetch field of its task):
\*   "fetch"      await fetch(...), the abort timer armed
\*   "errorBody"  !response.ok: await response.json().catch(...), timer armed
\*   "json"       response.ok: return response.json() has left the try
\*                block, the finally has run clearTimeout(timeoutId), and
\*                the returned promise of the body is still pending
\*   "returned"   the promise of fetchJson is fulfilled
\*   "threw"      the promise of fetchJson is rejected
\* Spec and the specifications built on it leave the field at "fetch" and
\* let the answer actions settle a call at any moment; FetchSpec lets an
\* answer action run only for a call whose fetchJson has settled.
FetchPhases == {"fetch", "errorBody", "json", "returned", "threw"}

\* the timer set in line 8 is live until the finally block clears it
TimeoutArmed(t) == t.fetch \in {"fetch", "errorBody"}

Advance(act, t, phase) ==
  /\ tasks' = Remove(t) (+) SetToBag({[t EXCEPT !.fetch = phase]})
  /\ last' = Did(act, << >>, t, phase)
  /\ prev' = ui
  /\ UNCHANGED <<variant, ui, nextLab, resetStopped, passedSince,
                 elapsedSeconds, timerRef, stopIssued>>

\* fetch resolves with response.ok
responseOk ==
  \E t \in InFlight : t.fetch = "fetch" /\ Advance("responseOk", t, "json")

\* fetch resolves with !response.ok
responseNotOk ==
  \E t \in InFlight :
    t.fetch = "fetch" /\ Advance("responseNotOk", t, "errorBody")

\* fetch rejects (network failure): the catch rethrows
fetchFailed ==
  \E t \in InFlight : t.fetch = "fetch" /\ Advance("fetchFailed", t, "threw")

\* the body arrives: an ok body fulfils fetchJson or fails to parse, an
\* error body (parsed or not) ends in throw new Error(body.detail || ...)
bodyRead ==
  \E t \in InFlight :
    \/ t.fetch = "json"
         /\ \E phase \in {"returned", "threw"} : Advance("bodyRead", t, phase)
    \/ t.fetch = "errorBody" /\ Advance("bodyRead", t, "threw")

\* the timer fires: controller.abort() rejects the pending fetch with an
\* AbortError ('Request timed out ...') or the pending error body (caught,
\* then throw new Error(`HTTP ${response.status}`))
abort ==
  \E t \in InFlight : TimeoutArmed(t) /\ Advance("abort", t, "threw")

\* the call settled is one whose fetchJson returned / threw
Returned == last'.task.fetch = "returned"
Threw == last'.task.fetch = "threw"

generateReturned == generateResolved /\ Returned
generateThrew == generateRejected /\ Threw
selfTestReturned == selfTestResolved /\ Returned
selfTestThrew == selfTestRejected /\ Threw
validateLabReturned == validateLabResolved /\ Returned
validateLabThrew == validateLabRejected /\ Threw
getFeedbackReturned == getFeedbackResolved /\ Returned
getFeedbackThrew == getFeedbackRejected /\ Threw
stopLabReturned == stopLabResolved /\ Returned
stopLabThrew == stopLabRejected /\ Threw
resetStopReturnedOrThrew == resetStopSettled /\ (Returned \/ Threw)

FetchNext ==
  \/ handleGenerate \/ handleDemo
  \/ handleLaunch
  \/ handleValidate
  \/ handleStop
  \/ handleReset
  \/ onBack \/ onRetry \/ dismissError
  \/ responseOk \/ responseNotOk \/ fetchFailed \/ bodyRead \/ abort
  \/ generateReturned \/ generateThrew
  \/ selfTestReturned \/ selfTestThrew
  \/ validateLabReturned \/ validateLabThrew
  \/ getFeedbackReturned \/ getFeedbackThrew
  \/ stopLabReturned \/ stopLabThrew
  \/ resetStopReturnedOrThrew

\* The runtime fires a timer that is due and runs the continuation of a
\* settled promise; nothing obliges the network to answer or the user to
\* act.
FetchFairness ==
  /\ WF_vars(abort)
  /\ WF_vars(generateReturned) /\ WF_vars(generateThrew)
  /\ WF_vars(selfTestReturned) /\ WF_vars(selfTestThrew)
  /\ WF_vars(validateLabReturned) /\ WF_vars(validateLabThrew)
  /\ WF_vars(getFeedbackReturned) /\ WF_vars(getFeedbackThrew)
  /\ WF_vars(stopLabReturned) /\ WF_vars(stopLabThrew)
  /\ WF_vars(resetStopReturnedOrThrew)

FetchSpec == Init /\ [][FetchNext]_vars /\ FetchFairness

\* C34: every remote request eventually settles (fetchJson returns, throws
\* the HTTP error, or is aborted by its timer and throws), so every driving
\* operation eventually ends and the busy flag loading eventually becomes
\* false.
C34_LoadingEventuallyFalse == ui.loading ~> ~ui.loading

\* C35: LAB variant: at most one interval is live; an interval is live only
\* while loading is true and loadingMessage is non-null; and every step that
\* changes the label (or the busy flag) leaves the counter at 0 with the old
\* interval cancelled: one interval if a labeled operation goes on, none
\* otherwise.
C35_WatchdogSingleShot ==
  /\ variant = "LAB"
  /\ timerRef <= 1
  /\ timerRef > 0 => ui.loading /\ ui.loadingMessage # Null
  /\ <<ui.loading, ui.loadingMessage>> # <<prev.loading, prev.loadingMessage>>
       => /\ elapsedSeconds = 0
          /\ timerRef = IF ui.loading /\ ui.loadingMessage # Null THEN 1 ELSE 0

\* the label changes from generating to self-testing with an interval live
C35_Witness ==
  /\ last.act = "generateResolved"
  /\ prev.loading /\ prev.loadingMessage = GeneratingMessage
  /\ ui.loading /\ ui.loadingMessage = TestingMessage
  /\ timerRef = 1 /\ elapsedSeconds = 0

\* C36: LAB variant: Reset triggered with labId non-null issues exactly one
\* stop call, for that id, and leaves the local state as it is until the call
\* has settled; when it has, resolved or rejected, Reset clears the state
\* (step CONFIGURE, no handle, error null) and issues nothing more; with no
\* handle held Reset clears the state at once and issues no call.
C36_LabResetStopsRunningLab ==
  variant = "LAB"
    => /\ last.act = "handleReset"
            => /\ prev.labId # NullLab
               /\ last.issued = <<Call("stopLab", prev.labId, Null)>>
               /\ ui = prev
               /\ BagIn(last.task, tasks)
       /\ (last.act = "handleResetDone" /\ last.task = NoTask)
            => /\ prev.labId = NullLab
               /\ last.issued = << >>
       /\ last.act = "handleResetDone"
            => /\ last.issued = << >>
               /\ ui = ResetCleared("LAB", prev)
               /\ ui.step = "CONFIGURE" /\ ui.labId = NullLab
               /\ ui.error = Null

\* the stop call of a Reset of a running lab was rejected
C36_Witness ==
  /\ variant = "LAB" /\ last.act = "handleResetDone"
  /\ last.task.kind = "reset" /\ last.resp \in Thrown
  /\ prev.labId = last.task.lab /\ prev.step = "LAB"
  /\ ui.step = "CONFIGURE" /\ ui.labId = NullLab /\ ui.error = Null

\* the self-test passed with a handle, which the component now holds
PassedWithHandle ==
  /\ last.act = "selfTestResolved"
  /\ last.task.kind \in {"generate", "demo"}
  /\ last.resp.passed /\ last.resp.lab_id # NullLab
  /\ IF variant = "LAB" THEN ui.labId = last.resp.lab_id
                        ELSE ui.prelaunchedLabId = last.resp.lab_id

\* C37: both variants: a self-test call is issued only by the answer to a
\* generate / demo call that resolved, by the same invocation of the handler
\* (no user action in between), for exactly the blueprint that call returned;
\* and step REVIEW, or step LAB reached from GENERATE, is entered only by a
\* self-test answer that passed with a handle.
C37_SelfTestFollowsGeneration ==
  /\ \A i \in 1..Len(last.issued) :
       last.issued[i].op = "selfTest"
         => /\ last.act = "generateResolved"
            /\ last.task.kind \in {"generate", "demo"}
            /\ last.task.pc = "generate"
            /\ last.issued[i].bp = last.resp
            /\ ui.blueprint = last.resp
            /\ BagIn([last.task EXCEPT !.pc = "selfTest", !.bp = last.resp],
                     tasks)
  /\ last.act = "generateResolved"
       => last.issued = <<Call("selfTest", NullLab, last.resp)>>
  /\ (variant = "REVIEW" /\ ui.step = "REVIEW" /\ prev.step # "REVIEW")
       => PassedWithHandle
  /\ (variant = "LAB" /\ ui.step = "LAB" /\ prev.step = "GENERATE")
       => PassedWithHandle

\* a demo blueprint went straight into a self-test that passed with a handle
C37_Witness ==
  /\ PassedWithHandle
  /\ last.task.kind = "demo" /\ last.task.bp = ui.blueprint
  /\ prev.step \in {"GENERATE", "SELF_TESTING"}
  /\ ui.step \in {"LAB", "REVIEW"}

\* C38: REVIEW variant: at most one handle is tracked: labId and
\* prelaunchedLabId are never both non-null, whatever the interleaving of
\* user actions and late responses.
C38_AtMostOneHandle ==
  variant = "REVIEW"
    => ~(ui.labId # NullLab /\ ui.prelaunchedLabId # NullLab)

\* a late self-test answer, after Reset, has stored a provisional handle
C38_Witness ==
  /\ variant = "REVIEW"
  /\ last.act = "selfTestResolved" /\ last.task.abandoned
  /\ ui.prelaunchedLabId # NullLab /\ ui.labId = NullLab

\* Launch has moved the provisional handle into the primary slot
C38_WitnessAdopted ==
  /\ variant = "REVIEW" /\ last.act = "handleLaunch"
  /\ prev.prelaunchedLabId # NullLab
  /\ ui.labId = prev.prelaunchedLabId /\ ui.prelaunchedLabId = NullLab

\* C39: both variants: the step has the data its view needs: step REVIEW
\* implies a blueprint; step RUNNING (REVIEW variant) a blueprint and a
\* primary handle; step LAB (LAB variant) a blueprint; step RESULTS with no
\* operation in flight validation results.
C39_StepHasItsData ==
  /\ ui.step = "REVIEW" => ui.blueprint # Null
  /\ (variant = "REVIEW" /\ ui.step = "RUNNING")
       => ui.blueprint # Null /\ ui.labId # NullLab
  /\ (variant = "LAB" /\ ui.step = "LAB") => ui.blueprint # Null
  /\ (ui.step = "RESULTS" /\ Driving = {}) => ui.validationResults # None

\* the calls that set the busy flag: those started by Generate, Demo (with
\* their self-test), Validate (with its feedback call), the user's Stop and
\* the REVIEW variant's fresh Launch
Busy ==
  {t \in InFlight : t.kind \in {"generate", "demo", "validate", "stop", "launch"}}

\* C40: both variants: loading is true if and only if a call started by
\* Generate, Demo, Validate, the user's Stop or the REVIEW variant's fresh
\* Launch has not yet settled.
C40_BusyFlagExact == ui.loading <=> Busy # {}

\* the REVIEW variant's fresh Launch has settled and the flag is down, with
\* nothing that sets it in flight
C40_Witness ==
  /\ variant = "REVIEW"
  /\ last.act \in {"launchLabResolved", "launchLabRejected"}
  /\ prev.loading /\ ~ui.loading /\ Busy = {}

\* the flag is up for a Generate whose call outlived a Reset
C40_WitnessAbandoned ==
  /\ last.act = "handleResetDone" /\ ui.step = "CONFIGURE"
  /\ ui.loading /\ \E t \in Busy : t.abandoned /\ t.kind = "generate"

====
